---- MODULE Spec2Model ----
(***************************************************************************)
(* Model of the ot-agent driver: the pipeline dispatcher (pipeline.py),    *)
(* the scheduler add/update routine (pipeline.py), the agent health        *)
(* heartbeat with its process-wide error queue (agent_health_heartbeat.py),*)
(* the config builder (driver_config_builder.py), the startup of the       *)
(* process (main.py), and the MySQL collector and the collector factory    *)
(* (collector/).                                                           *)
(*                                                                         *)
(* Job ids are modelled as the sequence of their "_"-separated words, so   *)
(* that Python's substring test `X in job_id` is a contiguous-subsequence  *)
(* test.  Time is a non-negative integer number of abstract time units.    *)
(***************************************************************************)
EXTENDS Integers, Sequences, FiniteSets, TLC

VARIABLES
    error_queue_global,  \* agent_health_heartbeat.error_queue_global (FIFO)
    put_count,           \* logical clock stamping the queued records
    last_tick,           \* outcome of the driver_pipeline call, when the most
                         \* recent operation was one
    hb_pc,               \* position of the heartbeat thread in send_heartbeat
    hb_terminating,      \* send_heartbeat's `terminating` argument
    hb_status,           \* local `status` of send_heartbeat
    hb_errors,           \* local `errors` of construct_error_list_and_clear
    hb_empty_at_fire,    \* history: what empty() answered when status was set
    hb_entry,            \* history: queue contents when the drain was called
    hb_added,            \* history: records put while the drain was running
    hb_left,             \* history: queue contents when the drain returned
    last_heartbeat,      \* the AgentHealthData of the most recent POST
    last_call,           \* what schedule_or_update_job did, when the most
                         \* recent operation was one
    now,                 \* wall clock of the scheduler
    jobs,                \* the scheduler's job store: job id -> job
    running,             \* job id -> instances of the job in progress
    last_submit,         \* what the scheduler did with the job it processed
                         \* last, when the most recent operation was that
    updating,            \* the _update_job call that has modified its job
                         \* and not yet rescheduled it, if there is one
    builder,             \* a DriverConfigBuilder: config and db-type flag
    builder_call,        \* the builder method called last and its outcome
    environ,             \* os.environ["POSTGRES_OTTERTUNE_DB_NAME"]
    args,                \* the argparse namespace of the process
    main_pc,             \* where the main thread of the process is
    run_raised,          \* the exception that ended run(), if one did
    health_jobs,         \* job store of the heartbeat's BackgroundScheduler
    collector,           \* a MysqlCollector
    metrics,             \* what its collect_metrics call issued and returned
    innodb_status,       \* the _truncate_innodb_status call made last
    connections          \* the database connections of the get_collector
                         \* call made last

coreVars == << error_queue_global, put_count, last_tick, hb_pc,
               hb_terminating, hb_status, hb_errors, hb_empty_at_fire,
               hb_entry, hb_added, hb_left, last_heartbeat, last_call, now,
               jobs >>

execVars == << running, last_submit, updating >>

builderVars == << builder, builder_call, environ >>

mainVars == << args, main_pc, run_raised, health_jobs >>

collectorVars == << collector, metrics, innodb_status, connections >>

\* the state the scheduler and heartbeat actions below never touch
startupVars == << execVars, builderVars, mainVars, collectorVars >>

vars == << coreVars, startupVars >>

hbVars == << hb_pc, hb_terminating, hb_status, hb_errors, hb_empty_at_fire,
             hb_entry, hb_added, hb_left, last_heartbeat >>

schedVars == << last_call, now, jobs >>

-----------------------------------------------------------------------------
(* Bounds of the model *)

MaxErrors == 2     \* records put on the error queue in one behaviour
MaxTime == 2       \* the wall clock runs from 0 to MaxTime
MaxJobs == 1       \* jobs the scheduler holds at the same time

-----------------------------------------------------------------------------
(* Job ids, pipeline.py:25-31 *)

TUNE_JOB_ID == << "tune", "job" >>
DB_LEVEL_MONITOR_JOB_ID == << "db", "level", "monitor", "job" >>
TABLE_LEVEL_MONITOR_JOB_ID == << "table", "level", "monitor", "job" >>
LONG_RUNNING_QUERY_MONITOR_JOB_ID ==
    << "long", "running", "query", "monitor", "job" >>
QUERY_MONITOR_JOB_ID == << "query", "monitor", "job" >>
SCHEMA_MONITOR_JOB_ID == << "schema", "monitor", "job" >>

\* a caller-supplied id that is none of the constants but contains one
OtherQueryJobId == << "my", "query", "monitor", "job" >>

PipelineJobIds ==
    { DB_LEVEL_MONITOR_JOB_ID, TABLE_LEVEL_MONITOR_JOB_ID,
      LONG_RUNNING_QUERY_MONITOR_JOB_ID, QUERY_MONITOR_JOB_ID,
      SCHEMA_MONITOR_JOB_ID }

JobIdInputs == PipelineJobIds \cup { TUNE_JOB_ID, OtherQueryJobId }

\* Python's `sub in s` on strings, on the word sequences
StrContains(sub, s) ==
    \E i \in 0..(Len(s) - Len(sub)) :
        \A k \in 1..Len(sub) : s[i + k] = sub[k]

-----------------------------------------------------------------------------
(* DriverConfig, driver_config.py:9-54: the fields the driver reads here *)

ConfigA ==
    [ monitor_interval |-> 1,
      table_level_monitor_interval |-> 2,
      long_running_query_monitor_interval |-> 1,
      query_monitor_interval |-> 2,
      schema_monitor_interval |-> 2,
      enable_s3 |-> FALSE,
      metric_source |-> << >> ]

ConfigB ==
    [ ConfigA EXCEPT !.enable_s3 = TRUE, !.monitor_interval = 2,
                     !.query_monitor_interval = 1 ]

ConfigC == [ ConfigA EXCEPT !.metric_source = << "cloudwatch" >> ]

Configs == { ConfigA, ConfigB, ConfigC }

-----------------------------------------------------------------------------
(* Exception classes and their base classes *)

NoError == "none"

Bases(cls) ==
    CASE cls = "TypeError" -> { "TypeError", "Exception" }
      [] cls = "NotImplementedError" ->
            { "NotImplementedError", "RuntimeError", "Exception" }
      [] cls = "DriverException" -> { "DriverException", "Exception" }
      [] cls = "PostgresCollectorException" ->
            { "PostgresCollectorException", "DbCollectorException",
              "DriverException", "Exception" }
      [] cls = "ComputeServerClientException" ->
            { "ComputeServerClientException", "DriverException", "Exception" }
      [] cls = "ClientError" -> { "ClientError", "Exception" }
      [] cls = "KeyError" -> { "KeyError", "LookupError", "Exception" }
      [] OTHER -> { cls }

IsInstance(exc, cls) == exc # NoError /\ cls \in Bases(exc)

\* what the environment makes the external calls of one tick do, if reached:
\* nothing fails, or the collector, the index statistics or the sink fails
NoFaults == [ collect |-> NoError, index |-> NoError, sink |-> NoError ]

Faults ==
    { NoFaults,
      [ NoFaults EXCEPT !.collect = "PostgresCollectorException" ],
      [ NoFaults EXCEPT !.index = "PostgresCollectorException" ],
      [ NoFaults EXCEPT !.sink = "fail" ] }

-----------------------------------------------------------------------------
(* The two sinks *)

S3ClientInitRequiredArgs == 5   \* enable_s3, aws_region, organization_id,
                                \* db_key, api_key (s3_bucket_name defaults)
S3ClientCallArgs == 3           \* config.enable_s3, config.organization_id,
                                \* config.api_key

\* S3Client(...) as driver_pipeline calls it: Python raises TypeError when a
\* required positional argument is missing
NewS3Client ==
    IF S3ClientCallArgs < S3ClientInitRequiredArgs THEN "TypeError"
    ELSE NoError

\* result of a call: the exception it raised, and what each sink received
Outcome(raised, steps, s3, http) ==
    [ raised |-> raised, steps |-> steps, s3 |-> s3, http |-> http ]

\* S3Client.post_observation(data, obs_type)
S3PostObservation(enable_s3, obs_type, faults) ==
    IF ~enable_s3 THEN Outcome(NoError, << >>, << >>, << >>)
    ELSE IF faults.sink # NoError
         THEN Outcome("ClientError", << >>, << >>, << >>)
         ELSE Outcome(NoError, << >>, << obs_type >>, << >>)

\* ComputeServerClient.post_*_observation(data): any failure of the POST is
\* wrapped in ComputeServerClientException
HttpPostObservation(obs_type, faults) ==
    IF faults.sink # NoError
    THEN Outcome("ComputeServerClientException", << >>, << >>, << >>)
    ELSE Outcome(NoError, << >>, << >>, << obs_type >>)

\* the `if config.enable_s3: ... else: ...` tail of every pipeline function
Ship(config, obs_type, faults, steps) ==
    LET r == IF config.enable_s3
             THEN S3PostObservation(config.enable_s3, obs_type, faults)
             ELSE HttpPostObservation(obs_type, faults)
    IN  Outcome(r.raised, Append(steps, "ship"), r.s3, r.http)

-----------------------------------------------------------------------------
(* Collection, database.py *)

\* collect_data_from_metric_sources: the only registered source,
\* "cloudwatch", ends in _prepare_for_cloudwatch's NotImplementedError;
\* an unregistered tag is a KeyError on METRIC_SOURCE_COLLECTOR
collect_data_from_metric_sources(config) ==
    IF config.metric_source = << >> THEN NoError
    ELSE IF config.metric_source[1] = "cloudwatch" THEN "NotImplementedError"
         ELSE "KeyError"

\* the source tags under which line 37 of database.py merges a metric map
\* into observation["metrics_data"]["global"]
metrics_from_sources(config) ==
    IF collect_data_from_metric_sources(config) = NoError
    THEN { config.metric_source[i] : i \in DOMAIN config.metric_source }
    ELSE { }

\* collect_db_level_observation_for_on_prem: database, then metric sources
collect_db_level_observation_for_on_prem(config, faults) ==
    IF faults.collect # NoError
    THEN Outcome(faults.collect, << "collect" >>, << >>, << >>)
    ELSE Outcome(collect_data_from_metric_sources(config),
                 << "collect", "merge" >>, << >>, << >>)

\* collect_table_level_data_from_database: a DbCollectorException of
\* collect_index_metrics is logged and dropped, any other error propagates
collect_table_level_observation_for_on_prem(config, faults) ==
    IF faults.collect # NoError
    THEN Outcome(faults.collect, << "collect" >>, << >>, << >>)
    ELSE IF IsInstance(faults.index, "DbCollectorException")
         THEN Outcome(NoError, << "collect" >>, << >>, << >>)
         ELSE Outcome(faults.index, << "collect" >>, << >>, << >>)

\* collect_{long_running_query,query,schema}_observation_for_on_prem
collect_observation_for_on_prem(config, faults) ==
    Outcome(faults.collect, << "collect" >>, << >>, << >>)

-----------------------------------------------------------------------------
(* The five pipeline functions, pipeline.py:81-199 *)

\* a pipeline function that ships whatever the collection did
PipelineForShipsAnyway(collected, config, obs_type, faults) ==
    Ship(config, obs_type, faults, collected.steps)

\* the body the five functions share: collect, then ship unless the
\* collection raised
PipelineFor(collected, config, obs_type, faults) ==
    IF collected.raised # NoError THEN collected
    ELSE Ship(config, obs_type, faults, collected.steps)

_db_level_monitor_driver_pipeline_for_on_prem(config, faults) ==
    PipelineFor(collect_db_level_observation_for_on_prem(config, faults),
                config, "db", faults)

_table_level_monitor_driver_pipeline_for_on_prem(config, faults) ==
    PipelineFor(collect_table_level_observation_for_on_prem(config, faults),
                config, "table", faults)

_long_running_query_monitor_driver_pipeline_for_on_prem(config, faults) ==
    PipelineFor(collect_observation_for_on_prem(config, faults),
                config, "long_running_query", faults)

_query_monitor_driver_pipeline_for_on_prem(config, faults) ==
    PipelineFor(collect_observation_for_on_prem(config, faults),
                config, "query", faults)

_schema_monitor_driver_pipeline_for_on_prem(config, faults) ==
    PipelineFor(collect_observation_for_on_prem(config, faults),
                config, "schema", faults)

\* the try-block of driver_pipeline: build the clients, dispatch on job_id
Dispatch(config, job_id, faults) ==
    IF NewS3Client # NoError
    THEN Outcome(NewS3Client, << "construct" >>, << >>, << >>)
    ELSE LET r ==
             IF job_id = DB_LEVEL_MONITOR_JOB_ID
             THEN _db_level_monitor_driver_pipeline_for_on_prem(config, faults)
             ELSE IF job_id = TABLE_LEVEL_MONITOR_JOB_ID
             THEN _table_level_monitor_driver_pipeline_for_on_prem(
                      config, faults)
             ELSE IF job_id = LONG_RUNNING_QUERY_MONITOR_JOB_ID
             THEN _long_running_query_monitor_driver_pipeline_for_on_prem(
                      config, faults)
             ELSE IF job_id = QUERY_MONITOR_JOB_ID
             THEN _query_monitor_driver_pipeline_for_on_prem(config, faults)
             ELSE IF job_id = SCHEMA_MONITOR_JOB_ID
             THEN _schema_monitor_driver_pipeline_for_on_prem(config, faults)
             ELSE Outcome("DriverException", << >>, << >>, << >>)
         IN  Outcome(r.raised, << "construct" >> \o r.steps, r.s3, r.http)

\* the dispatcher with only its first except clause
CaughtRequestExceptionOnly(exc) == IsInstance(exc, "RequestException")

\* the except clauses of driver_pipeline: does one of them take `exc`
Caught(exc) ==
    IsInstance(exc, "RequestException") \/ IsInstance(exc, "Exception")

-----------------------------------------------------------------------------
(* The error queue, agent_health_heartbeat.py *)

DrainRunning == hb_pc \in { "loop", "clear" }

\* add_error_to_global(error, stacktrace): one thread-safe put of
\* (error, timestamp, stacktrace)
add_error_to_global(error) ==
    LET item == << error, put_count + 1 >>
    IN  /\ error_queue_global' = Append(error_queue_global, item)
        /\ put_count' = put_count + 1
        /\ hb_added' = IF DrainRunning THEN Append(hb_added, item)
                       ELSE hb_added

\* the dict construct_error_list_and_clear builds from one queue item
ErrorEntry(item) == [ name |-> item[1], timestamp |-> item[2] ]

ErrorEntries(items) == [ i \in 1..Len(items) |-> ErrorEntry(items[i]) ]

-----------------------------------------------------------------------------
(* driver_pipeline, pipeline.py:34-78: one call, run by a scheduler worker *)

NoTick ==
    [ ran |-> FALSE, job_id |-> << >>, config |-> ConfigA,
      faults |-> NoFaults, raised |-> NoError, propagated |-> NoError,
      steps |-> << >>, s3 |-> << >>, http |-> << >>, enqueued |-> << >>,
      follows_failed_ship |-> FALSE ]

TickRecord(config, job_id, faults, r) ==
    [ ran |-> TRUE, job_id |-> job_id, config |-> config, faults |-> faults,
      raised |-> r.raised,
      propagated |-> IF Caught(r.raised) THEN NoError ELSE r.raised,
      steps |-> r.steps, s3 |-> r.s3, http |-> r.http,
      enqueued |-> IF Caught(r.raised) THEN << r.raised >> ELSE << >>,
      \* history: the call before this one was a tick of the same job
      \* during which the sink was failing
      follows_failed_ship |-> /\ last_tick.ran
                              /\ last_tick.job_id = job_id
                              /\ last_tick.faults.sink # NoError ]

driver_pipeline(config, job_id, faults) ==
    LET r == Dispatch(config, job_id, faults)
    IN  /\ last_tick' = TickRecord(config, job_id, faults, r)
        /\ IF Caught(r.raised)
           THEN /\ put_count < MaxErrors
                /\ add_error_to_global(r.raised)
           ELSE UNCHANGED << error_queue_global, put_count, hb_added >>

\* a pipeline function called with clients that were built (as the tests
\* of pipeline.py call them): what it raises goes to its caller
RunPipelineFunction ==
    /\ \E config \in Configs, job_id \in PipelineJobIds, faults \in Faults :
           LET r == CASE job_id = DB_LEVEL_MONITOR_JOB_ID ->
                         _db_level_monitor_driver_pipeline_for_on_prem(
                             config, faults)
                      [] job_id = TABLE_LEVEL_MONITOR_JOB_ID ->
                         _table_level_monitor_driver_pipeline_for_on_prem(
                             config, faults)
                      [] job_id = LONG_RUNNING_QUERY_MONITOR_JOB_ID ->
                         _long_running_query_monitor_driver_pipeline_for_on_prem(
                             config, faults)
                      [] job_id = QUERY_MONITOR_JOB_ID ->
                         _query_monitor_driver_pipeline_for_on_prem(
                             config, faults)
                      [] OTHER ->
                         _schema_monitor_driver_pipeline_for_on_prem(
                             config, faults)
           IN  last_tick' = [ TickRecord(config, job_id, faults, r) EXCEPT
                                  !.propagated = r.raised,
                                  !.enqueued = << >> ]
    /\ UNCHANGED << error_queue_global, put_count, last_call, now, jobs >>
    /\ UNCHANGED hbVars
    /\ UNCHANGED startupVars

-----------------------------------------------------------------------------
(* send_heartbeat, agent_health_heartbeat.py:50-103, run by its own thread *)

\* the status branches with the emptiness test inverted
HeartbeatStatusInverted(terminating, empty) ==
    IF terminating
    THEN IF empty THEN "terminating_error" ELSE "terminating_ok"
    ELSE IF empty THEN "error" ELSE "ok"

\* the status branches of send_heartbeat; `empty` is error_queue_global.empty()
HeartbeatStatus(terminating, empty) ==
    IF terminating
    THEN IF ~empty THEN "terminating_error" ELSE "terminating_ok"
    ELSE IF ~empty THEN "error" ELSE "ok"

NoHeartbeat ==
    [ sent |-> FALSE, agent_status |-> "ok", errors |-> << >>,
      terminating |-> FALSE, empty_at_fire |-> TRUE, posted |-> FALSE ]

\* lines 59-67, then the call of construct_error_list_and_clear (line 89)
HBComputeStatus ==
    /\ hb_pc = "idle"
    /\ \E terminating \in BOOLEAN :
           /\ hb_terminating' = terminating
           /\ hb_status' =
                  HeartbeatStatus(terminating, error_queue_global = << >>)
    /\ hb_empty_at_fire' = (error_queue_global = << >>)
    /\ hb_errors' = << >>
    /\ hb_entry' = error_queue_global
    /\ hb_added' = << >>
    /\ hb_pc' = "loop"
    /\ UNCHANGED << error_queue_global, put_count, last_tick, hb_left,
                    last_heartbeat >>
    /\ UNCHANGED schedVars
    /\ UNCHANGED startupVars

\* lines 90-101: the loop test found an item; get() takes the oldest one
HBLoopGet ==
    /\ hb_pc = "loop"
    /\ error_queue_global # << >>
    /\ hb_errors' = Append(hb_errors, ErrorEntry(Head(error_queue_global)))
    /\ error_queue_global' = Tail(error_queue_global)
    /\ UNCHANGED << put_count, last_tick, hb_pc, hb_terminating, hb_status,
                    hb_empty_at_fire, hb_entry, hb_added, hb_left,
                    last_heartbeat >>
    /\ UNCHANGED schedVars
    /\ UNCHANGED startupVars

\* line 90: the loop test found the queue empty
HBLoopExit ==
    /\ hb_pc = "loop"
    /\ error_queue_global = << >>
    /\ hb_pc' = "clear"
    /\ UNCHANGED << error_queue_global, put_count, last_tick, hb_terminating,
                    hb_status, hb_errors, hb_empty_at_fire, hb_entry,
                    hb_added, hb_left, last_heartbeat >>
    /\ UNCHANGED schedVars
    /\ UNCHANGED startupVars

\* lines 102-103: error_queue.queue.clear(); return errors
HBClear ==
    /\ hb_pc = "clear"
    /\ error_queue_global' = << >>
    /\ hb_left' = << >>
    /\ hb_pc' = "post"
    /\ UNCHANGED << put_count, last_tick, hb_terminating, hb_status,
                    hb_errors, hb_empty_at_fire, hb_entry, hb_added,
                    last_heartbeat >>
    /\ UNCHANGED schedVars
    /\ UNCHANGED startupVars

\* send_heartbeat that reports a failed POST through the error queue
HBPostEnqueuesFailure ==
    /\ hb_pc = "post"
    /\ \E ok \in BOOLEAN :
           /\ last_heartbeat' =
                  [ sent |-> TRUE, agent_status |-> hb_status,
                    errors |-> hb_errors, terminating |-> hb_terminating,
                    empty_at_fire |-> hb_empty_at_fire, posted |-> ok ]
           /\ IF ok
              THEN UNCHANGED << error_queue_global, put_count >>
              ELSE /\ put_count < MaxErrors
                   /\ error_queue_global' =
                          Append(error_queue_global,
                                 << "ComputeServerClientException",
                                    put_count + 1 >>)
                   /\ put_count' = put_count + 1
    /\ hb_pc' = "idle"
    /\ hb_terminating' = FALSE
    /\ hb_status' = "ok"
    /\ hb_errors' = << >>
    /\ hb_empty_at_fire' = TRUE
    /\ hb_entry' = << >>
    /\ hb_added' = << >>
    /\ hb_left' = << >>
    /\ UNCHANGED last_tick
    /\ UNCHANGED schedVars
    /\ UNCHANGED startupVars

\* lines 69-81: build AgentHealthData and POST it; the POST may fail, and
\* then post_agent_health_heartbeat raises ComputeServerClientException out
\* of send_heartbeat
HBPost ==
    /\ hb_pc = "post"
    /\ \E ok \in BOOLEAN :
           last_heartbeat' =
               [ sent |-> TRUE, agent_status |-> hb_status,
                 errors |-> hb_errors, terminating |-> hb_terminating,
                 empty_at_fire |-> hb_empty_at_fire, posted |-> ok ]
    /\ hb_pc' = "idle"
    /\ hb_terminating' = FALSE
    /\ hb_status' = "ok"
    /\ hb_errors' = << >>
    /\ hb_empty_at_fire' = TRUE
    /\ hb_entry' = << >>
    /\ hb_added' = << >>
    /\ hb_left' = << >>
    /\ UNCHANGED << error_queue_global, put_count, last_tick >>
    /\ UNCHANGED schedVars
    /\ UNCHANGED startupVars

-----------------------------------------------------------------------------
(* The scheduler's add/update routine, pipeline.py:202-295 *)

Registered == DOMAIN jobs

\* _get_interval(config, job_id): the interval, or the ValueError it raises
_get_interval(config, job_id) ==
    IF job_id = DB_LEVEL_MONITOR_JOB_ID
    THEN [ raised |-> NoError, interval |-> config.monitor_interval ]
    ELSE IF job_id = TABLE_LEVEL_MONITOR_JOB_ID
    THEN [ raised |-> NoError,
           interval |-> config.table_level_monitor_interval ]
    ELSE IF job_id = LONG_RUNNING_QUERY_MONITOR_JOB_ID
    THEN [ raised |-> NoError,
           interval |-> config.long_running_query_monitor_interval ]
    ELSE IF StrContains(QUERY_MONITOR_JOB_ID, job_id)
    THEN [ raised |-> NoError, interval |-> config.query_monitor_interval ]
    ELSE IF StrContains(SCHEMA_MONITOR_JOB_ID, job_id)
    THEN [ raised |-> NoError, interval |-> config.schema_monitor_interval ]
    ELSE [ raised |-> "ValueError", interval |-> 0 ]

\* the job scheduler.add_job stores.  Without a next_run_time the interval
\* trigger's first fire time is one interval after the registration.
NewJob(config, interval, next_run_time) ==
    [ args |-> config, interval |-> interval,
      next_run_time |-> next_run_time ]

\* _start_job that passes no next_run_time to add_job
StartJobDeferred(config, job_id, interval) ==
    [ j \in Registered \cup { job_id } |->
        IF j = job_id THEN NewJob(config, interval, now + interval)
        ELSE jobs[j] ]

\* _start_job(scheduler, config, job_id, interval)
_start_job(config, job_id, interval) ==
    LET next_run_time ==
            IF job_id \in { DB_LEVEL_MONITOR_JOB_ID,
                            TABLE_LEVEL_MONITOR_JOB_ID,
                            LONG_RUNNING_QUERY_MONITOR_JOB_ID,
                            QUERY_MONITOR_JOB_ID,
                            SCHEMA_MONITOR_JOB_ID }
            THEN now
            ELSE now + interval
    IN  [ j \in Registered \cup { job_id } |->
            IF j = job_id THEN NewJob(config, interval, next_run_time)
            ELSE jobs[j] ]

\* scheduler.modify_job(job_id, args=[new_config, job_id])
modify_job(store, job_id, new_config) ==
    [ store EXCEPT ![job_id].args = new_config ]

\* a reschedule_job that moves the next run time and keeps the old interval
RescheduleKeepsInterval(store, job_id, interval) ==
    [ store EXCEPT ![job_id].next_run_time = now + interval ]

\* scheduler.reschedule_job(job_id, trigger="interval", seconds=interval):
\* a new trigger, whose first fire time is one interval from now
reschedule_job(store, job_id, interval) ==
    [ store EXCEPT ![job_id].interval = interval,
                   ![job_id].next_run_time = now + interval ]

\* _update_job that reschedules without comparing the intervals
UpdateJobAlwaysReschedule(old_config, new_config, job_id, interval) ==
    reschedule_job(modify_job(jobs, job_id, new_config), job_id, interval)

\* _update_job(scheduler, old_config, new_config, job_id, interval)
_update_job(old_config, new_config, job_id, interval) ==
    LET old_interval == _get_interval(old_config, job_id).interval
        modified == modify_job(jobs, job_id, new_config)
    IN  IF old_interval # interval
        THEN reschedule_job(modified, job_id, interval)
        ELSE modified

NoCall == [ kind |-> "none", job_id |-> << >> ]

\* what a call does, for the record in last_call
CallKind(config, job_id) ==
    IF _get_interval(config, job_id).raised # NoError THEN "raised"
    ELSE IF job_id \notin Registered THEN "started"
    ELSE IF jobs[job_id].args = config THEN "unchanged"
    ELSE IF _get_interval(jobs[job_id].args, job_id).interval
                # _get_interval(config, job_id).interval
         THEN "rescheduled"
         ELSE "modified"

\* schedule_or_update_job that does not look the job up before adding it
ScheduleWithoutLookup(config, job_id) ==
    LET got == _get_interval(config, job_id)
    IN  /\ last_call' = [ kind |-> CallKind(config, job_id),
                          job_id |-> job_id ]
        /\ jobs' = IF got.raised # NoError THEN jobs
                   ELSE _start_job(config, job_id, got.interval)

\* schedule_or_update_job(scheduler, config, job_id)
schedule_or_update_job(config, job_id) ==
    LET got == _get_interval(config, job_id)
    IN  /\ last_call' = [ kind |-> CallKind(config, job_id),
                          job_id |-> job_id ]
        /\ jobs' =
              IF got.raised # NoError THEN jobs
              ELSE IF job_id \notin Registered
              THEN _start_job(config, job_id, got.interval)
              ELSE LET old_config == jobs[job_id].args
                   IN  IF old_config # config
                       THEN _update_job(old_config, config, job_id,
                                        got.interval)
                       ELSE jobs

\* main.py:164-196 and any later caller: the routine is called with a config
ScheduleOrUpdate ==
    /\ \E config \in Configs, job_id \in JobIdInputs :
           /\ Cardinality(Registered \cup { job_id }) <= MaxJobs
           /\ schedule_or_update_job(config, job_id)
    /\ last_tick' = NoTick
    /\ UNCHANGED << now, error_queue_global, put_count >>
    /\ UNCHANGED hbVars
    /\ UNCHANGED startupVars

-----------------------------------------------------------------------------
(* The running scheduler: due jobs fire, the clock advances *)

Due(job_id) == job_id \in Registered /\ jobs[job_id].next_run_time <= now

\* the scheduler runs a due job: driver_pipeline(*job.args) on a worker, and
\* the interval trigger moves the next run time one interval on
RunDueJob ==
    /\ \E job_id \in Registered :
           /\ Due(job_id)
           /\ \E faults \in Faults :
                  driver_pipeline(jobs[job_id].args, job_id, faults)
           /\ jobs' = [ jobs EXCEPT ![job_id].next_run_time =
                            @ + jobs[job_id].interval ]
    /\ last_call' = NoCall
    /\ UNCHANGED now
    /\ UNCHANGED << hb_pc, hb_terminating, hb_status, hb_errors,
                    hb_empty_at_fire, hb_entry, hb_left, last_heartbeat >>
    /\ UNCHANGED startupVars

\* the clock moves on once every due job has been started
AdvanceTime ==
    /\ now < MaxTime
    /\ \A job_id \in Registered : ~Due(job_id)
    /\ now' = now + 1
    /\ UNCHANGED << jobs, last_call, error_queue_global, put_count,
                    last_tick >>
    /\ UNCHANGED hbVars
    /\ UNCHANGED startupVars

-----------------------------------------------------------------------------
(* schedule_or_update_job called on a scheduler that is running: each      *)
(* scheduler method takes the scheduler's lock for itself, so the scheduler *)
(* thread may run due jobs between two of them.                             *)

NoUpdate == [ pending |-> FALSE, job_id |-> << >>, interval |-> 0 ]

\* lines 281-295 and 255-258: the routine up to and including its first call
\* that changes the job store (add_job or modify_job)
ScheduleOrModify ==
    /\ ~updating.pending
    /\ \E config \in Configs, job_id \in PipelineJobIds :
           LET interval == _get_interval(config, job_id).interval
           IN  /\ Cardinality(Registered \cup { job_id }) <= MaxJobs
               /\ last_call' = [ kind |-> CallKind(config, job_id),
                                 job_id |-> job_id ]
               /\ IF job_id \notin Registered
                  THEN /\ jobs' = _start_job(config, job_id, interval)
                       /\ updating' = NoUpdate
                  ELSE IF jobs[job_id].args = config
                  THEN UNCHANGED << jobs, updating >>
                  ELSE /\ jobs' = modify_job(jobs, job_id, config)
                       /\ updating' =
                              IF _get_interval(jobs[job_id].args,
                                               job_id).interval # interval
                              THEN [ pending |-> TRUE, job_id |-> job_id,
                                     interval |-> interval ]
                              ELSE NoUpdate
    /\ last_tick' = NoTick
    /\ UNCHANGED << now, error_queue_global, put_count >>
    /\ UNCHANGED << hbVars, builderVars, mainVars, collectorVars, running,
                    last_submit >>

\* lines 259-260: the reschedule_job call of _update_job
Reschedule ==
    /\ updating.pending
    /\ jobs' = reschedule_job(jobs, updating.job_id, updating.interval)
    /\ updating' = NoUpdate
    /\ last_tick' = NoTick
    /\ UNCHANGED << now, last_call, error_queue_global, put_count >>
    /\ UNCHANGED << hbVars, builderVars, mainVars, collectorVars, running,
                    last_submit >>

-----------------------------------------------------------------------------
(* A pipeline worker next to the heartbeat thread *)

HBTickInputs ==
    { << ConfigA, DB_LEVEL_MONITOR_JOB_ID, NoFaults >>,
      << ConfigA, DB_LEVEL_MONITOR_JOB_ID,
         [ NoFaults EXCEPT !.sink = "fail" ] >> }

\* a worker runs one tick of a pipeline while the heartbeat thread runs
WorkerTick ==
    /\ \E input \in HBTickInputs :
           driver_pipeline(input[1], input[2], input[3])
    /\ UNCHANGED << hb_pc, hb_terminating, hb_status, hb_errors,
                    hb_empty_at_fire, hb_entry, hb_left, last_heartbeat >>
    /\ UNCHANGED schedVars
    /\ UNCHANGED startupVars

-----------------------------------------------------------------------------
(* Ticks in progress.  main.py:22 builds BlockingScheduler() and            *)
(* pipeline.py:239-244 calls add_job without job options, so every job has  *)
(* the scheduler's defaults: one instance at a time, missed run times       *)
(* coalesced, a run later than the misfire grace time dropped.              *)

DefaultMaxInstances == 1

\* job id -> the args of the instances of the job that are in progress
NoneRunning == [ j \in JobIdInputs |-> << >> ]

\* how many run times of the job have come due: next_run_time,
\* next_run_time + interval, ... up to now
RunTimesDue(job_id) ==
    IF Due(job_id)
    THEN (now - jobs[job_id].next_run_time) \div jobs[job_id].interval + 1
    ELSE 0

\* the latest of them
LastRunTimeDue(job_id) ==
    jobs[job_id].next_run_time
        + (RunTimesDue(job_id) - 1) * jobs[job_id].interval

\* job.coalesce is the scheduler's default, True: of the run times that
\* came due only the latest is handed to the executor (run_times[-1:])
coalesce(run_times) == IF run_times > 0 THEN 1 ELSE 0

\* an executor that starts an instance whatever is in progress
SubmitWithoutInstanceLimit(job_id) == TRUE

\* executor.submit_job(job, run_times): does it accept the job, or does it
\* raise MaxInstancesReachedError
submit_job(job_id) == Len(running[job_id]) < DefaultMaxInstances

NoSubmit ==
    [ processed |-> FALSE, job_id |-> << >>, run_times |-> 0,
      in_progress |-> 0, submitted |-> FALSE, calls |-> 0 ]

\* the scheduler thread processes one due job: the run times that came due
\* are coalesced into the latest one, the job is handed to the executor
\* unless its instance limit is reached, and the next run time is the first
\* fire time after now.  A run that is late may be dropped as a misfire.
ProcessDueJob ==
    /\ \E job_id \in Registered :
           /\ Due(job_id)
           /\ \E calls \in 0..coalesce(RunTimesDue(job_id)) :
                  /\ calls = 0 =>
                         \/ ~submit_job(job_id)
                         \/ LastRunTimeDue(job_id) < now
                  /\ calls > 0 => submit_job(job_id)
                  /\ last_submit' =
                         [ processed |-> TRUE, job_id |-> job_id,
                           run_times |-> RunTimesDue(job_id),
                           in_progress |-> Len(running[job_id]),
                           submitted |-> submit_job(job_id),
                           calls |-> calls ]
                  /\ running' =
                         IF calls > 0
                         THEN [ running EXCEPT ![job_id] =
                                    Append(@, jobs[job_id].args) ]
                         ELSE running
           /\ jobs' = [ jobs EXCEPT ![job_id].next_run_time =
                            LastRunTimeDue(job_id) + jobs[job_id].interval ]
    /\ last_call' = NoCall
    /\ last_tick' = NoTick
    /\ UNCHANGED << now, error_queue_global, put_count >>
    /\ UNCHANGED << hbVars, builderVars, mainVars, collectorVars, updating >>

\* a worker thread of the pool ends the driver_pipeline call it was running
FinishTick ==
    /\ \E job_id \in DOMAIN running :
           /\ running[job_id] # << >>
           /\ \E faults \in Faults :
                  driver_pipeline(Head(running[job_id]), job_id, faults)
           /\ running' = [ running EXCEPT ![job_id] = Tail(@) ]
    /\ last_call' = NoCall
    /\ last_submit' = NoSubmit
    /\ UNCHANGED << now, jobs >>
    /\ UNCHANGED << hb_pc, hb_terminating, hb_status, hb_errors,
                    hb_empty_at_fire, hb_entry, hb_left, last_heartbeat >>
    /\ UNCHANGED << builderVars, mainVars, collectorVars, updating >>

ExecInputs ==
    { << ConfigA, DB_LEVEL_MONITOR_JOB_ID >>,
      << ConfigA, LONG_RUNNING_QUERY_MONITOR_JOB_ID >> }

\* main.py:164-196: a job is registered with the running scheduler
ExecRegister ==
    /\ \E input \in ExecInputs : schedule_or_update_job(input[1], input[2])
    /\ last_tick' = NoTick
    /\ last_submit' = NoSubmit
    /\ UNCHANGED << now, error_queue_global, put_count, running >>
    /\ UNCHANGED << hbVars, builderVars, mainVars, collectorVars, updating >>

\* time passes, whether or not the scheduler thread has woken up
ClockTick ==
    /\ now < MaxTime
    /\ now' = now + 1
    /\ last_call' = NoCall
    /\ last_tick' = NoTick
    /\ last_submit' = NoSubmit
    /\ UNCHANGED << jobs, error_queue_global, put_count, running >>
    /\ UNCHANGED << hbVars, builderVars, mainVars, collectorVars, updating >>

-----------------------------------------------------------------------------
(* DriverConfigBuilder, driver_config_builder.py.  A Python dict is a       *)
(* function from its keys.  A value that may be None is a sequence of       *)
(* length <= 1, and so is every value of the builder's config dict.         *)

None == << >>
Some(v) == << v >>

\* dict.update(other)
Update(config, other) ==
    [ k \in DOMAIN config \cup DOMAIN other |->
        IF k \in DOMAIN other THEN other[k] ELSE config[k] ]

PartialConfigFromFileFields ==
    { "server_url", "monitor_interval", "num_table_to_collect_stats",
      "table_level_monitor_interval", "num_index_to_collect_stats",
      "long_running_query_monitor_interval", "lr_query_latency_threshold_min",
      "query_monitor_interval", "num_query_to_collect", "metric_source",
      "schema_monitor_interval", "agent_health_report_interval" }

OverridesFields ==
    { "monitor_interval", "server_url", "num_table_to_collect_stats",
      "table_level_monitor_interval", "num_index_to_collect_stats",
      "long_running_query_monitor_interval", "lr_query_latency_threshold_min",
      "query_monitor_interval", "num_query_to_collect",
      "schema_monitor_interval", "agent_health_report_interval" }

DisableFlags ==
    { "disable_table_level_stats", "disable_index_stats",
      "disable_long_running_query_monitoring", "disable_query_monitoring",
      "disable_schema_monitoring" }

PartialConfigFromCommandlineFields ==
    { "api_key", "db_key", "organization_id", "aws_region", "enable_s3",
      "s3_bucket_name", "db_identifier", "db_user", "db_password",
      "enable_aws_iam_auth" } \cup DisableFlags

PartialConfigFromRDSFields ==
    { "db_host", "db_port", "db_version", "db_type",
      "db_non_default_parameters" }

\* the fields of the DriverConfig named tuple, driver_config.py:12-54
DriverConfigFields ==
    { "server_url", "db_identifier", "aws_region", "db_type", "db_host",
      "db_port", "db_version", "db_user", "db_password",
      "enable_aws_iam_auth", "db_name", "api_key", "db_key",
      "organization_id", "long_running_query_monitor_interval",
      "lr_query_latency_threshold_min", "monitor_interval", "metric_source",
      "metrics_to_retrieve_from_source", "disable_table_level_stats",
      "num_table_to_collect_stats", "table_level_monitor_interval",
      "disable_index_stats", "num_index_to_collect_stats",
      "disable_long_running_query_monitoring", "disable_query_monitoring",
      "query_monitor_interval", "num_query_to_collect",
      "disable_schema_monitoring", "schema_monitor_interval",
      "db_non_default_parameters", "enable_s3" }

\* the limits of the validators of PartialConfigFromFile
MinTableLevelMonitorInterval == 300
MinMonitorInterval == 60
MinLongRunningQueryMonitorInterval == 60
MinLrQueryLatencyThresholdMin == 1
MinQueryMonitorInterval == 300
MinSchemaMonitorInterval == 300

\* PartialConfigFromFile(**data): the ValidationError pydantic raises, if any
PartialConfigFromFile(data) ==
    IF ~(PartialConfigFromFileFields \subseteq DOMAIN data)
    THEN "ValidationError"
    ELSE IF \/ data["table_level_monitor_interval"]
                  < MinTableLevelMonitorInterval
            \/ data["monitor_interval"] < MinMonitorInterval
            \/ data["long_running_query_monitor_interval"]
                  < MinLongRunningQueryMonitorInterval
            \/ data["lr_query_latency_threshold_min"]
                  < MinLrQueryLatencyThresholdMin
            \/ data["num_table_to_collect_stats"] < 0
            \/ data["num_index_to_collect_stats"] < 0
            \/ data["query_monitor_interval"] < MinQueryMonitorInterval
            \/ data["num_query_to_collect"] < 0
            \/ data["schema_monitor_interval"] < MinSchemaMonitorInterval
         THEN "ValidationError"
         ELSE NoError

\* DriverConfigBuilder.__init__
NewBuilder == [ config |-> << >>, has_determined_db_type |-> FALSE ]

\* what a builder method leaves behind: the builder, and what it raised
Built(b, raised) == [ b |-> b, raised |-> raised ]

\* from_file(config_path), on the dict the YAML file holds
from_file(b, data) ==
    IF PartialConfigFromFile(data) # NoError
    THEN Built(b, "DriverConfigException")
    ELSE Built([ b EXCEPT !.config =
                     Update(@, [ k \in PartialConfigFromFileFields |->
                                     Some(data[k]) ]) ],
               NoError)

\* from_overrides that applies every item of the override layer
OverridesWithoutNoneFilter(b, overrides) ==
    Built([ b EXCEPT !.config = Update(@, overrides) ], NoError)

\* from_overrides(overrides)
from_overrides(b, overrides) ==
    LET supplied_overrides ==
            [ k \in { key \in DOMAIN overrides : overrides[key] # None } |->
                overrides[k] ]
    IN  Built([ b EXCEPT !.config = Update(@, supplied_overrides) ], NoError)

\* from_rds(db_instance_identifier), on what RDS describes; a field for
\* which the description gave nothing fails the validation of
\* PartialConfigFromRDS
from_rds(b, rds) ==
    IF ~(PartialConfigFromRDSFields \subseteq DOMAIN rds)
    THEN Built(b, "DriverConfigException")
    ELSE Built([ config |-> Update(b.config,
                                   [ k \in PartialConfigFromRDSFields |->
                                       Some(rds[k]) ]),
                 has_determined_db_type |-> TRUE ],
               NoError)

\* from_cloudwatch_metrics(db_instance_identifier)
from_cloudwatch_metrics(b) ==
    Built([ b EXCEPT !.config =
                Update(@, [ k \in { "metrics_to_retrieve_from_source" } |->
                              Some("cloudwatch_metric_names") ]) ],
          NoError)

\* str.lower() on the flag values of the command line
Lower(str) ==
    CASE str = "True" -> "true"
      [] str = "False" -> "false"
      [] OTHER -> str

\* the attributes from_command_line reads from the argparse namespace
CommandLineReads ==
    { "enable_aws_iam_auth", "db_password", "aws_region", "enable_s3",
      "s3_bucket_name", "db_identifier", "db_username", "api_key", "db_key",
      "organization_id" } \cup DisableFlags

\* from_command_line(args): reading an attribute the namespace lacks is an
\* AttributeError; a password of None without IAM auth fails validation
from_command_line(b, a) ==
    IF ~(CommandLineReads \subseteq DOMAIN a)
    THEN Built(b, "AttributeError")
    ELSE LET enable_aws_iam_auth == Lower(a["enable_aws_iam_auth"]) = "true"
             db_password ==
                 IF a["db_password"] = None /\ enable_aws_iam_auth
                 THEN Some("")
                 ELSE a["db_password"]
             from_cli ==
                 [ k \in PartialConfigFromCommandlineFields |->
                     IF k \in DisableFlags \cup { "enable_s3" }
                     THEN Some(Lower(a[k]) = "true")
                     ELSE IF k = "enable_aws_iam_auth"
                     THEN Some(enable_aws_iam_auth)
                     ELSE IF k = "db_password" THEN db_password
                     ELSE IF k = "db_user" THEN Some(a["db_username"])
                     ELSE Some(a[k]) ]
         IN  IF db_password = None
             THEN Built(b, "DriverConfigException")
             ELSE Built([ b EXCEPT !.config = Update(@, from_cli) ], NoError)

\* from_env_vars() without its test of has_determined_db_type: reading
\* self.config["db_type"] of a config that has none is a KeyError
EnvVarsWithoutDbTypeCheck(b, env) ==
    IF "db_type" \notin DOMAIN b.config
    THEN Built(b, "KeyError")
    ELSE Built([ b EXCEPT !.config =
                     Update(@, [ k \in { "db_name" } |->
                                   IF /\ b.config["db_type"] = Some("mysql")
                                      /\ env # None
                                      /\ env # Some("")
                                   THEN None
                                   ELSE env ]) ],
               NoError)

\* from_env_vars(), with db_name the value of POSTGRES_OTTERTUNE_DB_NAME;
\* `if db_name:` is false for None and for the empty string
from_env_vars(b, env) ==
    IF ~b.has_determined_db_type
    THEN Built(b, "DriverConfigException")
    ELSE LET db_name ==
                 IF /\ b.config["db_type"] = Some("mysql")
                    /\ env # None
                    /\ env # Some("")
                 THEN None
                 ELSE env
         IN  Built([ b EXCEPT !.config =
                         Update(@, [ k \in { "db_name" } |-> db_name ]) ],
                   NoError)

\* DriverConfig(**config): the named tuple holds the values of the dict
DriverConfig(config) ==
    [ k \in DriverConfigFields |->
        IF k = "db_name" THEN config[k] ELSE config[k][1] ]

\* the result of get_config: the DriverConfig, or the exception raised
Returned(config, raised) == [ config |-> config, raised |-> raised ]

\* DriverConfigBuilder.get_config(): DriverConfig(**self.config) is a
\* TypeError when a keyword is no field of the named tuple, or a field is
\* missing
get_config(b) ==
    IF ~(DOMAIN b.config \subseteq DriverConfigFields)
    THEN Returned(None, "TypeError")
    ELSE IF ~(DriverConfigFields \subseteq DOMAIN b.config)
    THEN Returned(None, "TypeError")
    ELSE Returned(Some(DriverConfig(b.config)), NoError)

-----------------------------------------------------------------------------
(* Inputs of the builder: files, override layers, RDS answers, namespaces *)

ValidFile ==
    [ server_url |-> "url",
      monitor_interval |-> MinMonitorInterval,
      num_table_to_collect_stats |-> 1,
      table_level_monitor_interval |-> MinTableLevelMonitorInterval,
      num_index_to_collect_stats |-> 1,
      long_running_query_monitor_interval |->
          MinLongRunningQueryMonitorInterval,
      lr_query_latency_threshold_min |-> MinLrQueryLatencyThresholdMin,
      query_monitor_interval |-> MinQueryMonitorInterval,
      num_query_to_collect |-> 1,
      metric_source |-> << >>,
      schema_monitor_interval |-> MinSchemaMonitorInterval,
      agent_health_report_interval |-> MinMonitorInterval ]

FileInputs ==
    { ValidFile,
      [ ValidFile EXCEPT !.monitor_interval = MinMonitorInterval - 1 ],
      [ ValidFile EXCEPT !.table_level_monitor_interval =
                             MinTableLevelMonitorInterval - 1 ],
      [ ValidFile EXCEPT !.long_running_query_monitor_interval =
                             MinLongRunningQueryMonitorInterval - 1 ],
      [ ValidFile EXCEPT !.query_monitor_interval =
                             MinQueryMonitorInterval - 1 ],
      [ ValidFile EXCEPT !.schema_monitor_interval =
                             MinSchemaMonitorInterval - 1 ],
      [ ValidFile EXCEPT !.agent_health_report_interval = 0 ],
      \* a file that lacks agent_health_report_interval
      [ k \in PartialConfigFromFileFields
                  \ { "agent_health_report_interval" } |-> ValidFile[k] ] }

NoOverrides == [ k \in OverridesFields |-> None ]

OverrideInputs ==
    { NoOverrides,
      [ NoOverrides EXCEPT
            !["monitor_interval"] = Some(MinMonitorInterval - 1) ],
      [ NoOverrides EXCEPT
            !["monitor_interval"] = Some(2 * MinMonitorInterval),
            !["num_table_to_collect_stats"] = Some(0) ],
      [ NoOverrides EXCEPT !["agent_health_report_interval"] = Some(0) ] }

\* what get_db_hostname, get_db_port, get_db_version, get_db_type and
\* get_db_non_default_parameters answer for the instance
RdsInputs ==
    { [ db_host |-> "host", db_port |-> 1, db_version |-> "version",
        db_type |-> db_type, db_non_default_parameters |-> << >> ] :
        db_type \in { "mysql", "aurora_mysql", "postgres",
                      "aurora_postgresql" } }
    \* a description without a port: db_port is None
    \cup { [ db_host |-> "host", db_version |-> "version",
             db_type |-> "postgres", db_non_default_parameters |-> << >> ] }

EnvInputs == { None, Some(""), Some("db1") }

\* the namespace _get_args() returns (main.py:25-161); the override_*
\* attributes are held as one function from the option to its value
Namespace(flags, override) ==
    [ k \in { "log_verbosity", "config", "aws_region", "db_identifier",
              "db_username", "db_password", "api_key", "db_key",
              "organization_id", "enable_aws_iam_auth", "override" }
            \cup DisableFlags |->
        IF k \in DisableFlags THEN flags[k]
        ELSE IF k = "override" THEN override
        ELSE IF k = "db_password" THEN Some("password")
        ELSE IF k = "enable_aws_iam_auth" THEN "False"
        ELSE k ]

\* the options _get_args() defines an --override-* flag for
OverrideOptions == OverridesFields \ { "agent_health_report_interval" }

NoOverrideOptions == [ k \in OverrideOptions |-> None ]

NoFlags == [ k \in DisableFlags |-> "False" ]

\* a namespace that also has the attributes of --enable-s3, --s3-bucket-name
NamespaceWithS3(flags, override) ==
    LET a == Namespace(flags, override)
    IN  [ k \in DOMAIN a \cup { "enable_s3", "s3_bucket_name" } |->
            IF k = "enable_s3" THEN "True"
            ELSE IF k = "s3_bucket_name" THEN "bucket"
            ELSE a[k] ]

ArgsInputs ==
    { Namespace(NoFlags, NoOverrideOptions),
      NamespaceWithS3(NoFlags, NoOverrideOptions) }

-----------------------------------------------------------------------------
(* One builder, its methods called in any order *)

NoBuilderCall ==
    [ op |-> "none", raised |-> NoError, overrides |-> NoOverrides,
      result |-> None ]

\* a method call: the builder it leaves, and the record of the call
BuilderCall(op, built, overrides, result) ==
    /\ builder' = built.b
    /\ builder_call' = [ op |-> op, raised |-> built.raised,
                         overrides |-> overrides, result |-> result ]
    /\ UNCHANGED << coreVars, execVars, mainVars, collectorVars, environ >>

FromFile ==
    \E data \in FileInputs :
        BuilderCall("from_file", from_file(builder, data), NoOverrides, None)

FromOverrides ==
    \E overrides \in OverrideInputs :
        BuilderCall("from_overrides", from_overrides(builder, overrides),
                    overrides, None)

FromRds ==
    \E rds \in RdsInputs :
        BuilderCall("from_rds", from_rds(builder, rds), NoOverrides, None)

FromCloudwatchMetrics ==
    BuilderCall("from_cloudwatch_metrics", from_cloudwatch_metrics(builder),
                NoOverrides, None)

FromCommandLine ==
    \E a \in ArgsInputs :
        BuilderCall("from_command_line", from_command_line(builder, a),
                    NoOverrides, None)

FromEnvVars ==
    BuilderCall("from_env_vars", from_env_vars(builder, environ),
                NoOverrides, None)

GetConfig ==
    LET got == get_config(builder)
    IN  BuilderCall("get_config", Built(builder, got.raised), NoOverrides,
                    got.config)

-----------------------------------------------------------------------------
(* The process, main.py *)

\* the keywords get_config passes to Overrides(...), main.py:205-214
OverridesCallKeywords ==
    { "monitor_interval", "server_url", "num_table_to_collect_stats",
      "table_level_monitor_interval", "num_index_to_collect_stats",
      "long_running_query_monitor_interval", "lr_query_latency_threshold_min",
      "query_monitor_interval", "num_query_to_collect",
      "schema_monitor_interval" }

\* Overrides(...) as get_config calls it: a named tuple without defaults
\* raises TypeError when a field gets no argument
NewOverrides(a) ==
    IF ~(OverridesFields \subseteq OverridesCallKeywords)
    THEN [ raised |-> "TypeError", overrides |-> NoOverrides ]
    ELSE [ raised |-> NoError,
           overrides |-> [ k \in OverridesFields |-> a["override"][k] ] ]

\* main.get_config(args): the chain of builder calls; the first exception
\* ends it
main_get_config(a, env, data, rds) ==
    LET made == NewOverrides(a)
        r1 == from_file(NewBuilder, data)
        r2 == IF r1.raised # NoError THEN r1
              ELSE from_overrides(r1.b, made.overrides)
        r3 == IF r2.raised # NoError THEN r2 ELSE from_rds(r2.b, rds)
        r4 == IF r3.raised # NoError THEN r3
              ELSE from_cloudwatch_metrics(r3.b)
        r5 == IF r4.raised # NoError THEN r4 ELSE from_command_line(r4.b, a)
        r6 == IF r5.raised # NoError THEN r5 ELSE from_env_vars(r5.b, env)
        r7 == IF r6.raised # NoError THEN r6
              ELSE from_overrides(r6.b, made.overrides)
    IN  IF made.raised # NoError THEN Returned(None, made.raised)
        ELSE IF r7.raised # NoError THEN Returned(None, r7.raised)
        ELSE get_config(r7.b)

\* the jobs run() registers for a config, main.py:245-253
RunRegisters(config) ==
    { DB_LEVEL_MONITOR_JOB_ID }
    \cup ( IF ~config.disable_table_level_stats \/ ~config.disable_index_stats
           THEN { TABLE_LEVEL_MONITOR_JOB_ID } ELSE { } )
    \cup ( IF ~config.disable_long_running_query_monitoring
           THEN { LONG_RUNNING_QUERY_MONITOR_JOB_ID } ELSE { } )
    \cup ( IF ~config.disable_query_monitoring
           THEN { QUERY_MONITOR_JOB_ID } ELSE { } )
    \cup ( IF ~config.disable_schema_monitoring
           THEN { SCHEMA_MONITOR_JOB_ID } ELSE { } )

\* run(): build the config, register the jobs (each schedule_*_job call
\* finds no job of its id and goes to _start_job), start the scheduler.
\* An exception of get_config ends the process.  run() registers nothing
\* with the heartbeat's scheduler and installs no signal handler.
run ==
    /\ main_pc = "init"
    /\ \E data \in FileInputs, rds \in RdsInputs :
           LET got == main_get_config(args, environ, data, rds)
           IN  IF got.raised # NoError
               THEN /\ main_pc' = "crashed"
                    /\ run_raised' = got.raised
                    /\ UNCHANGED jobs
               ELSE /\ main_pc' = "running"
                    /\ run_raised' = NoError
                    /\ jobs' =
                         [ j \in RunRegisters(got.config[1]) |->
                             NewJob(got.config[1],
                                    _get_interval(got.config[1], j).interval,
                                    now) ]
    /\ UNCHANGED << args, health_jobs >>
    /\ UNCHANGED << error_queue_global, put_count, last_tick, last_call,
                    now >>
    /\ UNCHANGED << hbVars, execVars, builderVars, collectorVars >>

\* SIGINT or SIGTERM reaches the process: with no handler installed the
\* process ends there (KeyboardInterrupt out of run(), or the default
\* action of SIGTERM); nothing sends a heartbeat
Signal ==
    /\ main_pc \in { "init", "running" }
    /\ main_pc' = "killed"
    /\ UNCHANGED << args, health_jobs, run_raised >>
    /\ UNCHANGED << coreVars, execVars, builderVars, collectorVars >>

RunArgsInputs ==
    { Namespace(flags, override) :
        flags \in [ DisableFlags -> { "True", "False" } ],
        override \in
            { NoOverrideOptions,
              [ NoOverrideOptions EXCEPT
                    !["monitor_interval"] = Some(MinMonitorInterval - 1) ] } }

-----------------------------------------------------------------------------
(* MysqlCollector, collector/mysql_collector.py.  A version string is the   *)
(* sequence of its "."-separated numbers.                                   *)

MaxMajor == 9      \* versions run from 5.0.0 to MaxMajor.MaxMinor.MaxPatch
MaxMinor == 10
MaxPatch == 1

VersionInputs ==
    { << major, minor, patch >> :
        major \in 5..MaxMajor, minor \in 0..MaxMinor, patch \in 0..MaxPatch }

\* float("<major>.<minor>"), in hundredths: "8.1" and "8.10" are both 8.1
Float(major, minor) ==
    major * 100 + ( IF minor < 10 THEN minor * 10 ELSE minor )

NoCollector ==
    [ built |-> FALSE, _version_str |-> << >>, _version |-> 0,
      ENGINE_REPLICA_SQL |-> "" ]

\* MysqlCollector.__init__(conn, version)
MysqlCollector(version) ==
    LET _version == Float(version[1], version[2])
    IN  [ built |-> TRUE, _version_str |-> version, _version |-> _version,
          ENGINE_REPLICA_SQL |->
              IF _version > Float(8, 0) THEN "SHOW REPLICA STATUS;"
              ELSE "SHOW SLAVE STATUS;" ]

NoMetrics ==
    [ collected |-> FALSE, issued |-> << >>, performance_schema |-> { } ]

\* MysqlCollector.collect_metrics(): the statements it issues, in order
\* (METRICS_SQL, METRICS_INNODB_SQL, ENGINE_INNODB_SQL, ENGINE_REPLICA_SQL,
\* ENGINE_MASTER_SQL, QUERY_DIGEST_TIME and, from 8.0,
\* METRICS_LATENCY_HIST_SQL), and the keys of
\* metrics["global"]["performance_schema"] it returns
collect_metrics(self) ==
    LET base == << "SHOW GLOBAL STATUS;",
                   "SELECT ... FROM information_schema.innodb_metrics ...;",
                   "SHOW ENGINE INNODB STATUS;",
                   self.ENGINE_REPLICA_SQL,
                   "SHOW MASTER STATUS;",
                   "SELECT ... FROM performance_schema.events_statements_summary_by_digest;" >>
        hist == "SELECT ... FROM performance_schema.events_statements_histogram_global;"
    IN  IF self._version >= Float(8, 0)
        THEN [ collected |-> TRUE,
               issued |-> Append(base, hist),
               performance_schema |->
                   { "events_statements_summary_by_digest",
                     "events_statements_histogram_global" } ]
        ELSE [ collected |-> TRUE, issued |-> base,
               performance_schema |->
                   { "events_statements_summary_by_digest" } ]

\* _truncate_innodb_status, mysql_collector.py:662-677.  A string is the
\* sequence of its lines, without their line breaks, and whether it ends
\* with a line break; the i-th line of an input reads << "line", i >>.

MaxStatusLines == 152     \* statuses have 0 to MaxStatusLines lines

KeptLines == 150          \* the size up to which a status is returned as is
FirstLines == 50          \* lines[:50]
LastLines == 100          \* lines[-100:]

Str(lines, ends_with_break) ==
    [ lines |-> lines, ends_with_break |-> ends_with_break ]

StatusInputs ==
    { Str([ i \in 1..size |-> << "line", i >> ], ends_with_break) :
        size \in 0..MaxStatusLines, ends_with_break \in BOOLEAN }
    \ { Str(<< >>, TRUE) }

\* str.splitlines(): the lines, a line break at the end opens no new line
splitlines(str) == str.lines

\* "\n".join(lines): no line break after the last line
join(lines) == Str(lines, FALSE)

\* lines[:n] and lines[-n:] of a list of at least n lines
FirstOf(lines, n) == SubSeq(lines, 1, n)
LastOf(lines, n) == SubSeq(lines, Len(lines) - n + 1, Len(lines))

\* _truncate_innodb_status that tests size < 150
TruncateBelowKeptLines(status) ==
    LET lines == splitlines(status)
        size == Len(lines)
    IN  IF size < KeptLines THEN status
        ELSE join(Append(FirstOf(lines, FirstLines),
                         << "...ignore", size - KeptLines, "lines here..." >>)
                  \o LastOf(lines, LastLines))

\* MysqlCollector._truncate_innodb_status(status)
_truncate_innodb_status(status) ==
    LET lines == splitlines(status)
        size == Len(lines)
    IN  IF size <= KeptLines THEN status
        ELSE join(Append(FirstOf(lines, FirstLines),
                         << "...ignore", size - KeptLines, "lines here..." >>)
                  \o LastOf(lines, LastLines))

NoTruncation ==
    [ called |-> FALSE, status |-> Str(<< >>, FALSE),
      returned |-> Str(<< >>, FALSE) ]

\* collect_metrics hands the text SHOW ENGINE INNODB STATUS returned to
\* _truncate_innodb_status (line 347)
TruncateInnodbStatus ==
    /\ \E status \in StatusInputs :
           innodb_status' =
               [ called |-> TRUE, status |-> status,
                 returned |-> _truncate_innodb_status(status) ]
    /\ UNCHANGED << collector, metrics, connections >>
    /\ UNCHANGED << coreVars, execVars, builderVars, mainVars >>

\* collector_factory.get_collector builds a collector for the version the
\* server reports
NewMysqlCollector ==
    /\ \E version \in VersionInputs : collector' = MysqlCollector(version)
    /\ metrics' = NoMetrics
    /\ UNCHANGED << innodb_status, connections >>
    /\ UNCHANGED << coreVars, execVars, builderVars, mainVars >>

CollectMetrics ==
    /\ collector.built
    /\ metrics' = collect_metrics(collector)
    /\ UNCHANGED << collector, innodb_status, connections >>
    /\ UNCHANGED << coreVars, execVars, builderVars, mainVars >>

-----------------------------------------------------------------------------
(* get_collector, collector/collector_factory.py:228-295.  A db_name is   *)
(* the sequence of its characters; a connection is the number of the       *)
(* connect call that opened it.                                            *)

MaxDbNameLen == 3      \* db_name has 0 to MaxDbNameLen characters

DbNameInputs ==
    { None } \cup
    { Some(str) : str \in UNION { [ 1..n -> { "a", ",", " " } ] :
                                     n \in 0..MaxDbNameLen } }

\* str.split(",")
RECURSIVE split(_)
split(str) ==
    IF \A i \in DOMAIN str : str[i] # "," THEN << str >>
    ELSE LET i == CHOOSE c \in DOMAIN str :
                      /\ str[c] = ","
                      /\ \A b \in 1..(c - 1) : str[b] # ","
         IN  << SubSeq(str, 1, i - 1) >>
                 \o split(SubSeq(str, i + 1, Len(str)))

\* str.strip()
RECURSIVE strip(_)
strip(str) ==
    IF str # << >> /\ Head(str) = " " THEN strip(Tail(str))
    ELSE IF str # << >> /\ str[Len(str)] = " "
         THEN strip(SubSeq(str, 1, Len(str) - 1))
         ELSE str

\* the finally clause that closes conn and forgets conns
FinallyClosesConnOnly(conn, conns) == IF conn # 0 THEN { conn } ELSE { }

\* the finally clause of get_collector: the connections it calls close() on
finally_close(conn, conns) ==
    ( IF conn # 0 THEN { conn } ELSE { } )
    \cup { conns[name] : name \in DOMAIN conns }

\* the try block of get_collector up to its yield.  fail_at numbers the
\* connect or version call that raises (0: none does).  A connection that
\* conns holds no longer, because a later one was stored under the same
\* name, has lost its last reference: the runtime deallocates it there, and
\* deallocation closes a connection.
get_collector(db_type, db_name, fail_at) ==
    IF db_type \in { "mysql", "aurora_mysql" }
    THEN [ conn |-> IF fail_at = 1 THEN 0 ELSE 1,
           conns |-> << >>,
           opened |-> IF fail_at = 1 THEN { } ELSE { 1 },
           deallocated |-> { },
           raised |-> IF fail_at \in 1..2 THEN "MysqlCollectorException"
                      ELSE NoError ]
    ELSE IF db_type \in { "postgres", "aurora_postgresql" }
    THEN LET dbname == IF db_name \in { None, Some(<< >>) }
                       THEN << "postgres" >>
                       ELSE db_name[1]
             db_names == [ i \in DOMAIN split(dbname) |->
                             strip(split(dbname)[i]) ]
             connected == IF fail_at \in 1..Len(db_names) THEN fail_at - 1
                          ELSE Len(db_names)
             conns == [ name \in { db_names[i] : i \in 1..connected } |->
                          CHOOSE i \in 1..connected :
                              /\ db_names[i] = name
                              /\ \A j \in (i + 1)..connected :
                                     db_names[j] # name ]
         IN  [ conn |-> 0,
               conns |-> conns,
               opened |-> 1..connected,
               deallocated |->
                   (1..connected) \ { conns[name] : name \in DOMAIN conns },
               raised |-> IF fail_at \in 1..(Len(db_names) + 1)
                          THEN "PostgresCollectorException"
                          ELSE NoError ]
    ELSE [ conn |-> 0, conns |-> << >>, opened |-> { }, deallocated |-> { },
           raised |-> "DbCollectorException" ]

\* the state of a get_collector call: its argument and its locals while the
\* with-block is entered, what it opened, and what is open
Connections(in_with, db_type, db_name, conn, conns, opened, open, raised) ==
    [ in_with |-> in_with, db_type |-> db_type, db_name |-> db_name,
      conn |-> conn, conns |-> conns, opened |-> opened, open |-> open,
      raised |-> raised ]

NoConnections == Connections(FALSE, "", None, 0, << >>, { }, { }, NoError)

\* `with get_collector(driver_conf) as collector:` is entered (database.py:
\* 119, 157, 202, 233): the connections are opened and the collector is
\* yielded; when a call raises before that, the finally clause runs at once
EnterCollector ==
    /\ ~connections.in_with
    /\ \E db_type \in { "mysql", "aurora_mysql", "postgres",
                         "aurora_postgresql", "oracle" },
          db_name \in DbNameInputs, fail_at \in 0..(MaxDbNameLen + 2) :
           LET got == get_collector(db_type, db_name, fail_at)
               open == got.opened \ got.deallocated
           IN  connections' =
                   IF got.raised = NoError
                   THEN Connections(TRUE, db_type, db_name, got.conn,
                                    got.conns, got.opened, open, NoError)
                   ELSE Connections(FALSE, "", None, 0, << >>, got.opened,
                                    open \ finally_close(got.conn,
                                                         got.conns),
                                    got.raised)
    /\ UNCHANGED << collector, metrics, innodb_status >>
    /\ UNCHANGED << coreVars, execVars, builderVars, mainVars >>

\* the with-block is left, by its end or by an exception of its body, and
\* the finally clause runs
LeaveCollector ==
    /\ connections.in_with
    /\ \E raised \in { NoError, "PostgresCollectorException" } :
           connections' =
               Connections(FALSE, "", None, 0, << >>, connections.opened,
                           connections.open
                               \ finally_close(connections.conn,
                                               connections.conns),
                           raised)
    /\ UNCHANGED << collector, metrics, innodb_status >>
    /\ UNCHANGED << coreVars, execVars, builderVars, mainVars >>

-----------------------------------------------------------------------------
(* Specifications *)

\* the state of a process that has just started, with its environment and
\* its command line drawn from the given sets
InitWith(environments, namespaces) ==
    /\ error_queue_global = << >>
    /\ put_count = 0
    /\ last_tick = NoTick
    /\ hb_pc = "idle"
    /\ hb_terminating = FALSE
    /\ hb_status = "ok"
    /\ hb_errors = << >>
    /\ hb_empty_at_fire = TRUE
    /\ hb_entry = << >>
    /\ hb_added = << >>
    /\ hb_left = << >>
    /\ last_heartbeat = NoHeartbeat
    /\ last_call = NoCall
    /\ now = 0
    /\ jobs = << >>
    /\ running = NoneRunning
    /\ last_submit = NoSubmit
    /\ updating = NoUpdate
    /\ builder = NewBuilder
    /\ builder_call = NoBuilderCall
    /\ environ \in environments
    /\ args \in namespaces
    /\ main_pc = "init"
    /\ run_raised = NoError
    /\ health_jobs = << >>
    /\ collector = NoCollector
    /\ metrics = NoMetrics
    /\ innodb_status = NoTruncation
    /\ connections = NoConnections

Init == InitWith({ None }, { Namespace(NoFlags, NoOverrideOptions) })

\* the scheduler thread and its pipeline workers (main.run)
Next ==
    \/ ScheduleOrUpdate
    \/ RunDueJob
    \/ AdvanceTime

Spec == Init /\ [][Next]_vars

\* the heartbeat thread next to a pipeline worker
NextHB ==
    \/ WorkerTick
    \/ HBComputeStatus
    \/ HBLoopGet
    \/ HBLoopExit
    \/ HBClear
    \/ HBPost

SpecHB == Init /\ [][NextHB]_vars

\* the scheduler thread, the clock and the worker pool
NextExec ==
    \/ ExecRegister
    \/ ProcessDueJob
    \/ FinishTick
    \/ ClockTick

SpecExec == Init /\ [][NextExec]_vars

\* the with-blocks of the collectors of successive ticks
SpecConnections == Init /\ [][EnterCollector \/ LeaveCollector]_vars

\* the pipeline functions, each applied to the inputs of one tick
SpecPipeline == Init /\ [][RunPipelineFunction]_vars

\* a thread that calls schedule_or_update_job next to the scheduler thread
NextUpdate ==
    \/ ScheduleOrModify
    \/ Reschedule
    \/ RunDueJob
    \/ AdvanceTime

SpecUpdate == Init /\ [][NextUpdate]_vars

\* a builder in a process whose environment is any of EnvInputs
InitBuilderAnyEnv ==
    InitWith(EnvInputs, { Namespace(NoFlags, NoOverrideOptions) })

NextBuilder ==
    \/ FromFile
    \/ FromOverrides
    \/ FromRds
    \/ FromCloudwatchMetrics
    \/ FromCommandLine
    \/ FromEnvVars
    \/ GetConfig

SpecBuilder == InitBuilderAnyEnv /\ [][NextBuilder]_vars

\* the process started with any command line and environment
InitRun == InitWith(EnvInputs, RunArgsInputs)

NextRun == run \/ Signal

SpecRun == InitRun /\ [][NextRun]_vars

NextCollector == NewMysqlCollector \/ CollectMetrics

SpecCollector == Init /\ [][NextCollector]_vars

\* _truncate_innodb_status applied to the statuses of StatusInputs
SpecTruncate == Init /\ [][TruncateInnodbStatus]_vars

-----------------------------------------------------------------------------
(* Properties of the error queue and the heartbeat (SpecHB) *)

\* C1: the drain returns every record that was in the queue when it was
\* called, in FIFO order, and leaves the queue empty, as one atomic step
\* with respect to concurrent add_error_to_global calls: there is an
\* instant during the call such that the returned list is exactly what was
\* put before it and the queue at return holds exactly what was put after it.
DrainIsAtomic ==
    hb_pc = "post" =>
        \E k \in 0..Len(hb_added) :
            /\ hb_errors = ErrorEntries(hb_entry \o SubSeq(hb_added, 1, k))
            /\ hb_left = SubSeq(hb_added, k + 1, Len(hb_added))

-----------------------------------------------------------------------------
(* Properties of one pipeline tick (Spec) *)

\* the observation kind of each pipeline job
KindOfJob(job_id) ==
    CASE job_id = DB_LEVEL_MONITOR_JOB_ID -> "db"
      [] job_id = TABLE_LEVEL_MONITOR_JOB_ID -> "table"
      [] job_id = LONG_RUNNING_QUERY_MONITOR_JOB_ID -> "long_running_query"
      [] job_id = QUERY_MONITOR_JOB_ID -> "query"
      [] job_id = SCHEMA_MONITOR_JOB_ID -> "schema"
      [] OTHER -> "unknown"

\* the error class a failing sink raises to the dispatcher
SinkErrorOf(config) ==
    IF config.enable_s3 THEN "ClientError" ELSE "ComputeServerClientException"

\* C3: a tick of one of the five jobs in which neither the collector (nor
\* the cloud-metrics merge) nor the selected sink raises hands exactly one
\* observation of the job's kind to the sink enable_s3 selects, nothing to
\* the other sink, and puts no error on the queue.
CleanTickShipsToSelectedSink ==
    ( /\ last_tick.ran
      /\ last_tick.job_id \in PipelineJobIds
      /\ last_tick.faults = NoFaults
      /\ last_tick.config.metric_source = << >> )
    => /\ last_tick.config.enable_s3 =>
              /\ last_tick.s3 = << KindOfJob(last_tick.job_id) >>
              /\ last_tick.http = << >>
       /\ ~last_tick.config.enable_s3 =>
              /\ last_tick.http = << KindOfJob(last_tick.job_id) >>
              /\ last_tick.s3 = << >>
       /\ last_tick.enqueued = << >>

\* C4: driver_pipeline never raises to the scheduler, whatever the job id
\* and whatever was raised inside it.
PipelineNeverRaises == last_tick.propagated = NoError

\* a tick of an unknown job id raised inside driver_pipeline, and returned
UnknownJobTickReturned ==
    /\ last_tick.ran
    /\ last_tick.job_id \notin PipelineJobIds
    /\ last_tick.raised # NoError
    /\ last_tick.propagated = NoError

\* C5: a tick in which a collector or sink call raises puts exactly one
\* record on the queue, whose name is the class of the error that call
\* raised.
RaisedErrorReachesQueue ==
    ( last_tick.ran /\ last_tick.job_id \in PipelineJobIds )
    => /\ last_tick.faults.collect # NoError
              => last_tick.enqueued = << last_tick.faults.collect >>
       /\ ( last_tick.faults.index # NoError
            /\ last_tick.job_id = TABLE_LEVEL_MONITOR_JOB_ID )
              => last_tick.enqueued = << last_tick.faults.index >>
       /\ last_tick.faults.sink # NoError
              => last_tick.enqueued = << SinkErrorOf(last_tick.config) >>

\* C6: a tick of job J during which shipping fails leaves J registered, and
\* the tick of J that follows it attempts collection and shipping again.
ShippingFailureKeepsPipelineRunning ==
    /\ ( /\ last_tick.ran
         /\ last_tick.job_id \in PipelineJobIds
         /\ last_tick.faults.sink # NoError )
       => /\ last_tick.job_id \in Registered
          /\ jobs[last_tick.job_id].interval =
                 _get_interval(jobs[last_tick.job_id].args,
                               last_tick.job_id).interval
    /\ ( /\ last_tick.ran
         /\ last_tick.job_id \in PipelineJobIds
         /\ last_tick.follows_failed_ship
         /\ last_tick.faults = NoFaults
         /\ last_tick.config.metric_source = << >> )
       => /\ \E i \in 1..Len(last_tick.steps) : last_tick.steps[i] = "collect"
          /\ \E i \in 1..Len(last_tick.steps) : last_tick.steps[i] = "ship"

-----------------------------------------------------------------------------
(* Properties of schedule_or_update_job (Spec) *)

\* the job id of the call a step makes, if it is a schedule_or_update_job
\* step (the routine records it in last_call)
CalledJobId == last_call'.job_id

\* C7: called for a registered job id with a config equal to the job's,
\* schedule_or_update_job changes nothing: the job is still there, with the
\* same arguments, interval and next run time, and so is every other job.
SameConfigChangesNothing ==
    [][ \A config \in Configs :
            ( /\ CalledJobId \in Registered
              /\ jobs[CalledJobId].args = config
              /\ schedule_or_update_job(config, CalledJobId) )
            => /\ CalledJobId \in DOMAIN jobs'
               /\ jobs' = jobs ]_vars

\* the routine was called again, after the clock moved, with the config the
\* job already had
CalledTwiceSameConfig ==
    /\ last_call.kind = "unchanged"
    /\ last_call.job_id \in Registered
    /\ now > 0

\* C8: called for a registered job id with a different config, the routine
\* replaces the job's arguments by the new config; it gives the job the new
\* interval if the interval of that job id differs between the two configs,
\* and otherwise leaves the interval and the next run time as they were.
DifferentConfigUpdatesJob ==
    [][ \A config \in Configs :
            ( /\ CalledJobId \in Registered
              /\ jobs[CalledJobId].args # config
              /\ schedule_or_update_job(config, CalledJobId) )
            => LET job_id == CalledJobId
                   old == _get_interval(jobs[job_id].args, job_id).interval
                   new == _get_interval(config, job_id).interval
               IN  /\ DOMAIN jobs' = DOMAIN jobs
                   /\ jobs'[job_id].args = config
                   /\ old # new =>
                          /\ jobs'[job_id].interval = new
                          /\ jobs'[job_id].next_run_time = now + new
                   /\ old = new =>
                          /\ jobs'[job_id].interval = jobs[job_id].interval
                          /\ jobs'[job_id].next_run_time =
                                 jobs[job_id].next_run_time ]_vars

\* a job was given a new config with another interval
JobRescheduled ==
    /\ last_call.kind = "rescheduled"
    /\ last_call.job_id \in Registered
    /\ jobs[last_call.job_id].next_run_time > now

NonDbJobsDeferredOneInterval ==
    [][ \A config \in Configs :
            ( /\ CalledJobId \in PipelineJobIds \ { DB_LEVEL_MONITOR_JOB_ID }
              /\ CalledJobId \notin Registered
              /\ schedule_or_update_job(config, CalledJobId) )
            => /\ CalledJobId \in DOMAIN jobs'
               /\ jobs'[CalledJobId].next_run_time
                      >= now + _get_interval(config, CalledJobId).interval
      ]_vars

-----------------------------------------------------------------------------
(* Properties of the startup and the shutdown of the process (SpecRun) *)

\* is the flag given as true on the command line
Disabled(flag) == Lower(args[flag]) = "true"

\* C11: once run() has been called, the registered pipeline jobs are exactly
\* the DB-level job, the table-level job unless both table and index stats
\* are disabled, and the long-running-query, query and schema jobs unless
\* their own flag disables them.
StartupRegistersEnabledJobs ==
    main_pc \in { "running", "crashed" } =>
        /\ DB_LEVEL_MONITOR_JOB_ID \in Registered
        /\ TABLE_LEVEL_MONITOR_JOB_ID \in Registered
               <=> ~( Disabled("disable_table_level_stats")
                      /\ Disabled("disable_index_stats") )
        /\ LONG_RUNNING_QUERY_MONITOR_JOB_ID \in Registered
               <=> ~Disabled("disable_long_running_query_monitoring")
        /\ QUERY_MONITOR_JOB_ID \in Registered
               <=> ~Disabled("disable_query_monitoring")
        /\ SCHEMA_MONITOR_JOB_ID \in Registered
               <=> ~Disabled("disable_schema_monitoring")
        /\ Registered \subseteq PipelineJobIds

\* C13: once run() has been called the heartbeat's scheduler holds the
\* heartbeat job, and no heartbeat job is due before one report interval
\* has passed since its registration.
HeartbeatRegisteredAtStart ==
    main_pc \in { "running", "crashed" } =>
        /\ health_jobs # << >>
        /\ \A j \in DOMAIN health_jobs :
               health_jobs[j].next_run_time
                   >= health_jobs[j].registered_at + health_jobs[j].interval

\* C14: a process ended by SIGINT or SIGTERM has sent a heartbeat whose
\* status is terminating_ok or terminating_error.
SignalSendsTerminatingHeartbeat ==
    main_pc = "killed" =>
        /\ last_heartbeat.sent
        /\ last_heartbeat.terminating
        /\ last_heartbeat.agent_status
               \in { "terminating_ok", "terminating_error" }

-----------------------------------------------------------------------------
(* Properties of the ticks in progress (SpecExec) *)

-----------------------------------------------------------------------------
(* Properties of the heartbeat POST (SpecHB) *)

\* C15: a send_heartbeat call whose POST fails puts nothing on the error
\* queue: the queue and the count of records put are the same after the
\* POST step as before it.
FailedPostEnqueuesNothing ==
    [][ ( hb_pc = "post" /\ hb_pc' = "idle" /\ ~last_heartbeat'.posted )
        => /\ error_queue_global' = error_queue_global
           /\ put_count' = put_count ]_vars

\* a heartbeat that carried errors was sent and its POST failed
HeartbeatPostFailed ==
    /\ last_heartbeat.sent
    /\ ~last_heartbeat.posted
    /\ last_heartbeat.errors # << >>

-----------------------------------------------------------------------------
(* Properties of the config builder (SpecBuilder) *)

\* C16: a from_overrides call sets every key whose override is not None to
\* the override's value, leaves every key whose override is None as it was
\* (absent if it was absent), and changes no other key of the config.
OverridesKeyForKey ==
    [][ builder_call'.op = "from_overrides" =>
          LET overrides == builder_call'.overrides
              old == builder.config
              new == builder'.config
          IN  /\ \A k \in DOMAIN overrides :
                     overrides[k] # None =>
                         k \in DOMAIN new /\ new[k] = overrides[k]
              /\ \A k \in DOMAIN old \cup DOMAIN new :
                     ( k \notin DOMAIN overrides \/ overrides[k] = None ) =>
                         /\ k \in DOMAIN old
                         /\ k \in DOMAIN new
                         /\ new[k] = old[k]
              /\ builder'.has_determined_db_type
                     = builder.has_determined_db_type ]_vars

\* an override layer with a monitor_interval and no
\* table_level_monitor_interval was applied on top of the file's values
OverrideLayerApplied ==
    /\ builder_call.op = "from_overrides"
    /\ builder_call.overrides["monitor_interval"] # None
    /\ builder_call.overrides["table_level_monitor_interval"] = None
    /\ "table_level_monitor_interval" \in DOMAIN builder.config
    /\ builder.config["monitor_interval"]
           = builder_call.overrides["monitor_interval"]
    /\ builder.config["table_level_monitor_interval"]
           = Some(MinTableLevelMonitorInterval)

\* does the builder's config hold an interval below the limit of its key
ViolatesIntervalBounds(config) ==
    LET BelowLimit(cfg, key, limit) ==
            /\ key \in DOMAIN cfg
            /\ cfg[key] # None
            /\ cfg[key][1] < limit
    IN
    \/ BelowLimit(config, "monitor_interval", MinMonitorInterval)
    \/ BelowLimit(config, "table_level_monitor_interval",
                  MinTableLevelMonitorInterval)
    \/ BelowLimit(config, "long_running_query_monitor_interval",
                  MinLongRunningQueryMonitorInterval)
    \/ BelowLimit(config, "query_monitor_interval", MinQueryMonitorInterval)
    \/ BelowLimit(config, "schema_monitor_interval",
                  MinSchemaMonitorInterval)
    \/ BelowLimit(config, "agent_health_report_interval", 1)

\* C17: a get_config call returns a config only if every interval of the
\* builder's config is within its limit, and fails with
\* DriverConfigException if one is not.
ReturnedConfigWithinBounds ==
    builder_call.op = "get_config" =>
        /\ builder_call.result # None
               => ~ViolatesIntervalBounds(builder.config)
        /\ ViolatesIntervalBounds(builder.config)
               => /\ builder_call.result = None
                  /\ builder_call.raised = "DriverConfigException"

\* C18: after a from_env_vars call that did not raise, db_name is None if
\* db_type is mysql or aurora_mysql, and is the value of
\* POSTGRES_OTTERTUNE_DB_NAME if db_type is postgres or aurora_postgresql.
DbNameUnsetForMysql ==
    ( builder_call.op = "from_env_vars" /\ builder_call.raised = NoError ) =>
        /\ builder.config["db_type"]
               \in { Some("mysql"), Some("aurora_mysql") }
               => builder.config["db_name"] = None
        /\ builder.config["db_type"]
               \in { Some("postgres"), Some("aurora_postgresql") }
               => builder.config["db_name"] = environ

-----------------------------------------------------------------------------
(* Properties of the MySQL collector (SpecCollector) *)

\* C19: a collector built for a version whose major.minor is at least 8.0
\* issues SHOW REPLICA STATUS and returns events_statements_histogram_global;
\* one built for an older version issues SHOW SLAVE STATUS and returns no
\* histogram.
ReplicaStatementFollowsVersion ==
    metrics.collected =>
        LET issued == { metrics.issued[i] : i \in DOMAIN metrics.issued }
            histogram == "events_statements_histogram_global"
                             \in metrics.performance_schema
        IN  IF collector._version_str[1] >= 8
            THEN /\ "SHOW REPLICA STATUS;" \in issued
                 /\ "SHOW SLAVE STATUS;" \notin issued
                 /\ histogram
            ELSE /\ "SHOW SLAVE STATUS;" \in issued
                 /\ "SHOW REPLICA STATUS;" \notin issued
                 /\ ~histogram

-----------------------------------------------------------------------------
(* Properties of the DB-level observation (Spec) *)

\* C20: a DB-level tick with metric sources configured, in which neither
\* the collector nor the sink fails, hands the sink one DB-level
\* observation into which the metric map of every source tag of
\* metric_source was merged after the collection and before the shipping.
MetricSourcesMerged ==
    ( /\ last_tick.ran
      /\ last_tick.job_id = DB_LEVEL_MONITOR_JOB_ID
      /\ last_tick.faults = NoFaults
      /\ last_tick.config.metric_source # << >> )
    => /\ last_tick.s3 \o last_tick.http = << "db" >>
       /\ \A i \in DOMAIN last_tick.config.metric_source :
              last_tick.config.metric_source[i]
                  \in metrics_from_sources(last_tick.config)
       /\ \E i, j \in DOMAIN last_tick.steps :
              /\ i < j
              /\ last_tick.steps[i] = "merge"
              /\ last_tick.steps[j] = "ship"

\* is the line the ellipsis line that stands for n dropped lines
IsEllipsis(line, n) == line = << "...ignore", n, "lines here..." >>

\* C21: _truncate_innodb_status returns a status of at most 150 lines
\* unchanged; of a longer one it returns exactly 151 lines: the first 50
\* lines of the status, one ellipsis line, and the last 100 lines of the
\* status, in that order.
TruncateKeepsFirstAndLastLines ==
    innodb_status.called =>
        LET lines == splitlines(innodb_status.status)
            size == Len(lines)
            out == splitlines(innodb_status.returned)
        IN  /\ size <= 150 => innodb_status.returned = innodb_status.status
            /\ size > 150 =>
                   /\ Len(out) = 151
                   /\ \A i \in 1..50 : out[i] = lines[i]
                   /\ IsEllipsis(out[51], size - 150)
                   /\ \A i \in 1..100 : out[51 + i] = lines[size - 100 + i]

\* a status of more than 150 lines was truncated
LongStatusTruncated ==
    /\ innodb_status.called
    /\ Len(splitlines(innodb_status.status)) > 150
    /\ innodb_status.returned # innodb_status.status

-----------------------------------------------------------------------------
(* Properties of an update next to the running scheduler (SpecUpdate) *)

\* C22: no tick of a job fires between the modify step and the reschedule
\* step of _update_job: every tick runs with a config whose interval for
\* the job is the interval the job's trigger has at that tick.
TickRunsOnIntervalOfItsConfig ==
    ( last_tick.ran /\ last_tick.job_id \in Registered ) =>
        /\ ~updating.pending
        /\ _get_interval(last_tick.config, last_tick.job_id).interval
               = jobs[last_tick.job_id].interval

-----------------------------------------------------------------------------
(* Properties of the pipeline functions (SpecPipeline) *)

\* C23: in one call of a pipeline function the sink is called only after the
\* collection, and for the DB-level function after the merge of the cloud
\* metrics that follows the collection; the other functions merge nothing;
\* when the collection or the merge raises, nothing is shipped.
ShipOnlyAfterCollectAndMerge ==
    last_tick.ran =>
        LET steps == last_tick.steps
            At(step) == { i \in DOMAIN steps : steps[i] = step }
            db_level == last_tick.job_id = DB_LEVEL_MONITOR_JOB_ID
        IN  /\ \A j \in At("ship") : \E i \in At("collect") : i < j
            /\ db_level =>
                   \A j \in At("ship") :
                       \E i \in At("collect"), k \in At("merge") :
                           i < k /\ k < j
            /\ ~db_level => At("merge") = { }
            /\ last_tick.s3 \o last_tick.http # << >> => At("ship") # { }
            /\ ( \/ last_tick.faults.collect # NoError
                 \/ /\ db_level
                    /\ collect_data_from_metric_sources(last_tick.config)
                           # NoError )
               => /\ At("ship") = { }
                  /\ last_tick.s3 = << >>
                  /\ last_tick.http = << >>

\* the DB-level function collected, merged and then shipped one observation
DbObservationShippedAfterMerge ==
    /\ last_tick.ran
    /\ last_tick.job_id = DB_LEVEL_MONITOR_JOB_ID
    /\ last_tick.steps = << "collect", "merge", "ship" >>
    /\ last_tick.s3 \o last_tick.http = << "db" >>

-----------------------------------------------------------------------------
(* Properties of the database connections (SpecConnections) *)

-----------------------------------------------------------------------------
(* Properties of the records of the error queue (SpecHB) *)

\* C25: draining neither loses nor duplicates a record: when a drain has
\* returned, every record that was on the queue when it was called or was
\* put while it ran is either in the returned list, once, or on the queue,
\* once, and not both.
NoErrorLostOrDuplicated ==
    hb_pc = "post" =>
        LET put == hb_entry \o hb_added
            InList(item) ==
                Cardinality({ i \in DOMAIN hb_errors :
                                hb_errors[i] = ErrorEntry(item) })
            InQueue(item) ==
                Cardinality({ i \in DOMAIN error_queue_global :
                                error_queue_global[i] = item })
        IN  \A k \in DOMAIN put : InList(put[k]) + InQueue(put[k]) = 1

\* C26: the agent_status of a heartbeat is error or terminating_error if
\* and only if the errors list of the same heartbeat is not empty.
StatusAgreesWithErrors ==
    last_heartbeat.sent =>
        ( last_heartbeat.agent_status \in { "error", "terminating_error" }
          <=> last_heartbeat.errors # << >> )

\* C27: the errors of a heartbeat whose POST failed are not lost: each of
\* them is on the error queue again, or in the list the next heartbeat is
\* draining, so that a later heartbeat can carry it.
FailedPostKeepsErrors ==
    ( last_heartbeat.sent /\ ~last_heartbeat.posted ) =>
        \A i \in DOMAIN last_heartbeat.errors :
            \/ \E j \in DOMAIN error_queue_global :
                   ErrorEntry(error_queue_global[j]) = last_heartbeat.errors[i]
            \/ \E j \in DOMAIN hb_errors :
                   hb_errors[j] = last_heartbeat.errors[i]

-----------------------------------------------------------------------------
(* Properties of the job store after schedule_or_update_job calls (Spec) *)

OnlySupportedJobsRegistered ==
    /\ Registered \subseteq PipelineJobIds
    /\ ( last_call.kind # "none" /\ last_call.job_id \notin PipelineJobIds )
           => last_call.kind = "raised"

-----------------------------------------------------------------------------
(* Properties of the order of the builder's calls (SpecBuilder) *)

\* C30: a from_env_vars call succeeds only on a builder on which from_rds
\* has completed (the flag is set and the config holds what from_rds
\* fetched); on a builder whose flag is not set it raises
\* DriverConfigException and leaves the builder as it was; a from_rds call
\* that fails leaves the flag as it was, false unless an earlier from_rds
\* call succeeded, and the config unchanged.
FromEnvVarsNeedsFromRds ==
    [][ /\ builder_call'.op = "from_env_vars" =>
               /\ builder_call'.raised = NoError =>
                      /\ builder.has_determined_db_type
                      /\ PartialConfigFromRDSFields
                             \subseteq DOMAIN builder.config
               /\ ~builder.has_determined_db_type =>
                      /\ builder_call'.raised = "DriverConfigException"
                      /\ builder' = builder
        /\ ( builder_call'.op = "from_rds"
             /\ builder_call'.raised # NoError ) =>
               /\ builder'.has_determined_db_type
                      = builder.has_determined_db_type
               /\ builder'.config = builder.config
               /\ PartialConfigFromRDSFields \cap DOMAIN builder.config = { }
                      => ~builder'.has_determined_db_type ]_vars

\* from_env_vars was called before any from_rds call and raised
EnvVarsRaisedBeforeRds ==
    /\ builder_call.op = "from_env_vars"
    /\ builder_call.raised = "DriverConfigException"
    /\ ~builder.has_determined_db_type
    /\ "db_name" \notin DOMAIN builder.config

====
